---- MODULE Spec2Model ----
(***************************************************************************)
(* A model of main.py: the response parser extract_filename_and_content    *)
(* (a strip, one anchored regular expression evaluated with Python's       *)
(* backtracking priorities, and the choice of the returned pair) and the   *)
(* linear script around it (credential, input file, model call, parse,     *)
(* output write).                                                          *)
(*                                                                         *)
(* A string is a sequence of characters, a character a one-element string. *)
(* The grave accent U+0060 (the "backtick" of a code fence) is written BQ, *)
(* because a TLA+ string literal cannot hold that character.               *)
(***************************************************************************)
EXTENDS Integers, Sequences, FiniteSets, TLC

VARIABLES
    pc,               \* position of the script: the next step to run
    groq_api_key,     \* TRUE iff os.getenv("GROQ_API_KEY") is a non-empty string
    input_file,       \* input.txt: [kind, data], kind "missing", "unreadable", "undecodable" or "text"
    user_query,       \* the stripped text read from input.txt
    form,             \* how the text handed to the parser was put together
    result,           \* the model's response (the parser's argument)
    parsed_content,   \* first component of the parser's return value
    output_filename,  \* second component of the parser's return value
    disk,             \* the file at output_path: [exists, data]
    disk0,            \* the file at output_path before the run
    steps,            \* the stages entered so far, in order
    error             \* the stage whose exception ended the run, or "none"

vars == <<pc, groq_api_key, input_file, user_query, form, result, parsed_content,
          output_filename, disk, disk0, steps, error>>

(***************************************************************************)
(* Characters                                                              *)
(***************************************************************************)
STAR == "*"
DOT == "."
NL == "\n"
SP == " "
BQ == "BQ"
SQ == "'"
SLASH == "/"

\* \w of the pattern (letters, digits and the underscore): the word characters
\* that occur in the inputs
WordChars == {"a", "b", "1", "_"}

\* what str.strip() removes: the whitespace characters that occur in the inputs
Whitespace == {SP, NL, "\t"}

IsWord(c) == c \in WordChars

IsSpace(c) == c \in Whitespace

DEFAULT_FILENAME == <<"o", "u", "t", "p", "u", "t", DOT, "t", "x", "t">>

(***************************************************************************)
(* Sequences                                                               *)
(***************************************************************************)
RECURSIVE Flatten(_)
Flatten(ss) == IF ss = <<>> THEN <<>> ELSE Head(ss) \o Flatten(Tail(ss))

\* the integers hi, hi-1, ..., lo as a sequence (empty when hi < lo)
Descending(hi, lo) == [i \in 1..(IF hi >= lo THEN hi - lo + 1 ELSE 0) |-> hi + 1 - i]

(***************************************************************************)
(* str.strip()                                                             *)
(***************************************************************************)
Strip(s) ==
    IF \A i \in 1..Len(s) : IsSpace(s[i])
    THEN <<>>
    ELSE LET first == CHOOSE i \in 1..Len(s) :
                          ~IsSpace(s[i]) /\ \A j \in 1..(i - 1) : IsSpace(s[j])
             last == CHOOSE i \in 1..Len(s) :
                          ~IsSpace(s[i]) /\ \A j \in (i + 1)..Len(s) : IsSpace(s[j])
         IN SubSeq(s, first, last)

(***************************************************************************)
(* The pattern of extract_filename_and_content, matched with re.DOTALL:    *)
(*   ^(?:\*\*(.+?\.\w+)\*\*\n+)?                                           *)
(*    (?:BQ BQ BQ(?:\w+)?\n|'''(?:\w+)?\n)?                                *)
(*    (.*?)(\n(?:BQ BQ BQ|'''))?$                                          *)
(* Every sub-pattern yields its possible matches as a sequence in the      *)
(* order the backtracking matcher tries them (greedy: longest first, lazy: *)
(* shortest first, an optional group: taken first, then skipped); the      *)
(* match re.match returns is the first complete one.  A position is the    *)
(* index of the next character to read.                                    *)
(***************************************************************************)
None == [has |-> FALSE, val |-> <<>>]

Some(v) == [has |-> TRUE, val |-> v]

\* Python's truth value of a group: neither None nor the empty string
Truthy(g) == g.has /\ g.val # <<>>

\* the literal lit stands at position p of s
Lit(s, p, lit) == p + Len(lit) - 1 <= Len(s) /\ SubSeq(s, p, p + Len(lit) - 1) = lit

\* length of the longest run of characters of class cls starting at position p
Run(s, p, cls) ==
    CHOOSE n \in 0..(Len(s) + 1 - p) :
        /\ \A i \in p..(p + n - 1) : s[i] \in cls
        /\ (p + n > Len(s) \/ s[p + n] \notin cls)

\* \w+ and \n+ at p (greedy): the positions after it, longest run first
PlusEnds(s, p, cls) == Descending(p + Run(s, p, cls), p + 1)

\* $ without re.MULTILINE: the end, or just before a final newline
AtEnd(s, p) == p = Len(s) + 1 \/ (p = Len(s) /\ s[p] = NL)

\* (?:\*\*(.+?\.\w+)\*\*\n+)? at position 1: the group and the position after it
MarkerMatches(s) ==
    LET afterDot(d) ==
            \* \w+ from d + 1, then \*\*, then \n+
            Flatten([i \in 1..Len(PlusEnds(s, d + 1, WordChars)) |->
                LET q == PlusEnds(s, d + 1, WordChars)[i]
                IN IF Lit(s, q, <<STAR, STAR>>)
                   THEN [j \in 1..Len(PlusEnds(s, q + 2, {NL})) |->
                            [g1 |-> Some(SubSeq(s, 3, q - 1)),
                             pos |-> PlusEnds(s, q + 2, {NL})[j]]]
                   ELSE <<>>])
        taken ==
            IF Lit(s, 1, <<STAR, STAR>>)
            THEN \* .+? (lazy, any character): the dot stands at d = 4, 5, ...
                 Flatten([k \in 1..(IF Len(s) >= 4 THEN Len(s) - 3 ELSE 0) |->
                     IF s[k + 3] = DOT THEN afterDot(k + 3) ELSE <<>>])
            ELSE <<>>
    IN taken \o <<[g1 |-> None, pos |-> 1]>>

\* (?:\w+)?\n at position q: the positions after it
TagEnds(s, q) ==
    LET cands == PlusEnds(s, q, WordChars) \o <<q>>
    IN Flatten([i \in 1..Len(cands) |->
           IF Lit(s, cands[i], <<NL>>) THEN <<cands[i] + 1>> ELSE <<>>])

\* (?:BQ BQ BQ(?:\w+)?\n|'''(?:\w+)?\n)? at position p: the positions after it
FenceEnds(s, p) ==
    (IF Lit(s, p, <<BQ, BQ, BQ>>) THEN TagEnds(s, p + 3) ELSE <<>>)
    \o (IF Lit(s, p, <<SQ, SQ, SQ>>) THEN TagEnds(s, p + 3) ELSE <<>>)
    \o <<p>>

\* mutant of BodyMatches: the closing fence group is missing from the pattern
BodyMatchesKeepClosing(s, p) ==
    <<[g2 |-> SubSeq(s, p, Len(s)), g3 |-> None, pos |-> Len(s) + 1]>>

\* mutant of BodyMatches: the closing fence is not anchored to the end by $
BodyMatchesFirstFence(s, p) ==
    LET stops == {e \in p..(Len(s) + 1) :
                     \/ Lit(s, e, <<NL, BQ, BQ, BQ>>)
                     \/ Lit(s, e, <<NL, SQ, SQ, SQ>>)
                     \/ e = Len(s) + 1}
        e == CHOOSE x \in stops : \A y \in stops : x <= y
    IN <<[g2 |-> SubSeq(s, p, e - 1),
          g3 |-> IF e = Len(s) + 1 THEN None ELSE Some(SubSeq(s, e, e + 3)),
          pos |-> Len(s) + 1]>>

\* (.*?)(\n(?:BQ BQ BQ|'''))?$ at position p: groups 2 and 3
BodyMatches(s, p) ==
    Flatten([k \in 1..(Len(s) + 2 - p) |->
        LET e == p + k - 1
            g2 == SubSeq(s, p, e - 1)
            closing == IF Lit(s, e, <<NL, BQ, BQ, BQ>>) \/ Lit(s, e, <<NL, SQ, SQ, SQ>>)
                       THEN <<[g2 |-> g2, g3 |-> Some(SubSeq(s, e, e + 3)), pos |-> e + 4]>>
                       ELSE <<>>
            cands == closing \o <<[g2 |-> g2, g3 |-> None, pos |-> e]>>
        IN SelectSeq(cands, LAMBDA m : AtEnd(s, m.pos))])

\* every complete match of the pattern against s, in the matcher's order
Matches(s) ==
    LET markers == MarkerMatches(s)
    IN Flatten([i \in 1..Len(markers) |->
           LET fences == FenceEnds(s, markers[i].pos)
           IN Flatten([j \in 1..Len(fences) |->
                  LET bodies == BodyMatches(s, fences[j])
                  IN [n \in 1..Len(bodies) |->
                         [g1 |-> markers[i].g1,
                          g2 |-> Some(bodies[n].g2),
                          g3 |-> bodies[n].g3]]])])

\* re.match(pattern, content, re.DOTALL): [matched, groups]
ReMatch(s) ==
    LET all == Matches(s)
    IN IF all = <<>>
       THEN [matched |-> FALSE, groups |-> [g1 |-> None, g2 |-> None, g3 |-> None]]
       ELSE [matched |-> TRUE, groups |-> Head(all)]

(***************************************************************************)
(* extract_filename_and_content: <<parsed_content, filename>>              *)
(***************************************************************************)
\* mutant of ChooseFilename: the default is forgotten
ChooseFilenameNoDefault(filename) == filename.val

\* if filename: return ..., filename; otherwise return ..., "output.txt"
ChooseFilename(filename) ==
    IF Truthy(filename) THEN filename.val ELSE DEFAULT_FILENAME

extract_filename_and_content(raw) ==
    LET content == Strip(raw)
        match == ReMatch(content)
        captured_filename == match.groups.g1
        inner_content == match.groups.g2
        filename == IF match.matched /\ Truthy(captured_filename)
                    THEN captured_filename
                    ELSE None
        parsed == IF match.matched /\ Truthy(inner_content)
                  THEN Strip(inner_content.val)
                  ELSE content
    IN <<parsed, ChooseFilename(filename)>>

(***************************************************************************)
(* Inputs of the parser.  A form is the way a response is put together:    *)
(* an optional leading token ** text ** followed by newlines, an optional  *)
(* opening fence line, a body, an optional closing fence.                  *)
(***************************************************************************)
MaxText == 3
MaxBody == 2
MaxFree == 3
MaxRest == 5
MaxFenced == 4

\* all strings of at most n characters of chars
Strings(chars, n) == UNION {[1..k -> chars] : k \in 0..n}

\* all concatenations of at most n of the strings toks
TokenStrings(toks, n) == {Flatten(t) : t \in Strings(toks, n)}

FENCE_BQ == <<BQ, BQ, BQ>>

FENCE_SQ == <<SQ, SQ, SQ>>

Stars == <<STAR, STAR>>

NoOpen == <<>>

NoClose == <<>>

Opens == {FENCE_BQ \o <<NL>>, FENCE_BQ \o <<"a", NL>>,
          FENCE_SQ \o <<NL>>, FENCE_SQ \o <<"a", NL>>}

Closes == {<<NL>> \o FENCE_BQ, <<NL>> \o FENCE_SQ}

Newlines(n) == [i \in 1..n |-> NL]

Form(marked, text, nls, open, body, close) ==
    [is_str |-> TRUE, marked |-> marked, text |-> text, nls |-> nls,
     open |-> open, body |-> body, close |-> close]

\* the response a form stands for
Assemble(f) ==
    (IF f.marked THEN Stars \o f.text \o Stars \o Newlines(f.nls) ELSE <<>>)
    \o f.open \o f.body \o f.close

\* free text: any short string of the alphabet
FreeForms ==
    {Form(FALSE, <<>>, 0, NoOpen, b, NoClose) :
        b \in Strings({STAR, DOT, "a", NL, SP, BQ, SQ, SLASH}, MaxFree)}

\* a leading ** text ** token or none, then fence, body, fence
ShapedForms ==
    LET texts == Strings({"a", DOT, SLASH, SP}, MaxText) \ {<<>>}
        heads == {<<FALSE, <<>>, 0>>} \cup {<<TRUE, t, n>> : t \in texts, n \in 1..2}
    IN {Form(h[1], h[2], h[3], o, b, c) :
           h \in heads,
           o \in {NoOpen, FENCE_BQ \o <<"a", NL>>, FENCE_SQ \o <<NL>>},
           b \in Strings({"a", SP, NL}, MaxBody),
           c \in Closes \cup {NoClose}}

(***************************************************************************)
(* The parser applied to one input                                         *)
(***************************************************************************)
Quiet ==
    /\ groq_api_key = TRUE
    /\ input_file = [kind |-> "text", data |-> <<"a">>]
    /\ user_query = <<"a">>
    /\ disk = [exists |-> FALSE, data |-> <<>>]
    /\ disk0 = disk
    /\ steps = <<>>
    /\ error = "none"

InitOn(forms) ==
    /\ pc = "call"
    /\ form \in forms
    /\ result = Assemble(form)
    /\ parsed_content = <<>>
    /\ output_filename = <<>>
    /\ Quiet

\* parsed_content, output_filename = extract_filename_and_content(result)
Extract ==
    /\ pc = "call"
    /\ \E r \in {extract_filename_and_content(result)} :
        parsed_content' = r[1] /\ output_filename' = r[2]
    /\ pc' = "return"
    /\ UNCHANGED <<groq_api_key, input_file, user_query, form, result,
                   disk, disk0, steps, error>>

InitParse == InitOn(FreeForms \cup ShapedForms)

NextParse == Extract

SpecParse == InitParse /\ [][NextParse]_vars

(***************************************************************************)
(* The script: steps 1, 2, 5, 7, 8 and 9 of main.py, one action each.  An  *)
(* exception ends the run: pc = "failed" and error names the stage.        *)
(***************************************************************************)
MaxReply == 2
MaxQuery == 2

Stages == <<"credential", "read", "client", "call", "parse", "write">>

\* a response whose content is not a str (a list of content blocks)
BlocksForm ==
    [is_str |-> FALSE, marked |-> FALSE, text |-> <<>>, nls |-> 0,
     open |-> NoOpen, body |-> <<>>, close |-> NoClose]

\* the responses the model may give
ResponseForms ==
    {Form(h[1], h[2], h[3], o, b, c) :
        h \in {<<FALSE, <<>>, 0>>, <<TRUE, <<"a", DOT, "a">>, 1>>},
        o \in {NoOpen, FENCE_BQ \o <<NL>>},
        b \in Strings({"a", NL}, MaxReply),
        c \in {NoClose, <<NL>> \o FENCE_BQ}}
    \cup {BlocksForm}

InputFiles ==
    {[kind |-> k, data |-> <<>>] : k \in {"missing", "unreadable", "undecodable"}}
    \cup {[kind |-> "text", data |-> d] : d \in Strings({"a", SP}, MaxQuery)}

OldData == <<"o", "l", "d">>

Init ==
    /\ pc = "load_key"
    /\ groq_api_key \in BOOLEAN
    /\ input_file \in InputFiles
    /\ user_query = <<>>
    /\ form = BlocksForm
    /\ result = <<>>
    /\ parsed_content = <<>>
    /\ output_filename = <<>>
    /\ disk0 \in {[exists |-> FALSE, data |-> <<>>], [exists |-> TRUE, data |-> OldData]}
    /\ disk = disk0
    /\ steps = <<>>
    /\ error = "none"

Fail(stage) == pc' = "failed" /\ error' = stage

\* Step 1: groq_api_key = os.getenv(...); if not groq_api_key: raise ValueError
LoadKey ==
    /\ pc = "load_key"
    /\ steps' = Append(steps, "credential")
    /\ IF groq_api_key
       THEN pc' = "read_input" /\ error' = error
       ELSE Fail("credential")
    /\ UNCHANGED <<groq_api_key, input_file, user_query, form, result,
                   parsed_content, output_filename, disk, disk0>>

\* mutant of ReadInput: the check for an empty query is missing
ReadInputUnchecked ==
    /\ pc = "read_input"
    /\ steps' = Append(steps, "read")
    /\ IF input_file.kind = "text"
       THEN /\ user_query' = Strip(input_file.data)
            /\ pc' = "init_client"
            /\ error' = error
       ELSE Fail("read") /\ user_query' = user_query
    /\ UNCHANGED <<groq_api_key, input_file, form, result,
                   parsed_content, output_filename, disk, disk0>>

\* Step 2: user_query = f.read().strip(); if not user_query: raise ValueError
ReadInput ==
    /\ pc = "read_input"
    /\ steps' = Append(steps, "read")
    /\ IF input_file.kind = "text"
       THEN /\ user_query' = Strip(input_file.data)
            /\ IF user_query' = <<>>
               THEN Fail("read")
               ELSE pc' = "init_client" /\ error' = error
       ELSE Fail("read") /\ user_query' = user_query
    /\ UNCHANGED <<groq_api_key, input_file, form, result,
                   parsed_content, output_filename, disk, disk0>>

\* Step 5: groq_llm = ChatGroq(...), which may raise
InitClient ==
    /\ pc = "init_client"
    /\ steps' = Append(steps, "client")
    /\ \/ pc' = "invoke" /\ error' = error
       \/ Fail("client")
    /\ UNCHANGED <<groq_api_key, input_file, user_query, form, result,
                   parsed_content, output_filename, disk, disk0>>

\* Step 7: result = chain.invoke({"user_query": user_query}).content, which may raise
Invoke ==
    /\ pc = "invoke"
    /\ steps' = Append(steps, "call")
    /\ \/ /\ form' \in ResponseForms
          /\ result' = Assemble(form')
          /\ pc' = "parse"
          /\ error' = error
       \/ Fail("call") /\ UNCHANGED <<form, result>>
    /\ UNCHANGED <<groq_api_key, input_file, user_query,
                   parsed_content, output_filename, disk, disk0>>

\* Step 8: parsed_content, output_filename = extract_filename_and_content(result);
\* content.strip() raises when the content is not a str
Parse ==
    /\ pc = "parse"
    /\ steps' = Append(steps, "parse")
    /\ IF form.is_str
       THEN /\ \E r \in {extract_filename_and_content(result)} :
                 parsed_content' = r[1] /\ output_filename' = r[2]
            /\ pc' = "open_output"
            /\ error' = error
       ELSE Fail("parse") /\ UNCHANGED <<parsed_content, output_filename>>
    /\ UNCHANGED <<groq_api_key, input_file, user_query, form, result, disk, disk0>>

\* Step 9, output_path.open("w", encoding="utf-8"): creates or truncates the
\* file, or raises and leaves it alone
OpenOutput ==
    /\ pc = "open_output"
    /\ steps' = Append(steps, "write")
    /\ \/ /\ disk' = [exists |-> TRUE, data |-> <<>>]
          /\ pc' = "write_output"
          /\ error' = error
       \/ Fail("write") /\ disk' = disk
    /\ UNCHANGED <<groq_api_key, input_file, user_query, form, result,
                   parsed_content, output_filename, disk0>>

\* Step 9, f.write(parsed_content) and the close of the with block: the whole
\* content reaches the file, or an exception (an unencodable character, a full
\* device) leaves a proper prefix of it in the opened file
WriteOutput ==
    /\ pc = "write_output"
    /\ \/ /\ disk' = [exists |-> TRUE, data |-> parsed_content]
          /\ pc' = "done"
          /\ error' = error
       \/ /\ \E n \in 0..(Len(parsed_content) - 1) :
                 disk' = [exists |-> TRUE, data |-> SubSeq(parsed_content, 1, n)]
          /\ Fail("write")
    /\ UNCHANGED <<groq_api_key, input_file, user_query, form, result,
                   parsed_content, output_filename, disk0, steps>>

Next ==
    \/ LoadKey
    \/ ReadInput
    \/ InitClient
    \/ Invoke
    \/ Parse
    \/ OpenOutput
    \/ WriteOutput

Spec == Init /\ [][Next]_vars

(***************************************************************************)
(* Further inputs of the parser                                            *)
(***************************************************************************)
\* a leading ** text ** token whose text has no name.ext shape, one newline,
\* then a longer rest
MalformedForms ==
    {Form(TRUE, t, 1, NoOpen, b, NoClose) :
        t \in {<<"a">>, <<"a", "a">>, <<"a", DOT>>, <<DOT, "a">>, <<"a", SP>>},
        b \in TokenStrings({<<"a">>, <<DOT>>, <<NL>>, Stars}, MaxRest)}

\* an opening fence line, a body that may hold fences itself, a closing fence
FencedForms ==
    {Form(FALSE, <<>>, 0, o, b, c) :
        o \in Opens,
        b \in TokenStrings({<<"a">>, <<NL>>, FENCE_BQ, FENCE_SQ}, MaxFenced),
        c \in Closes}

InitMalformed == InitOn(MalformedForms)

SpecMalformed == InitMalformed /\ [][NextParse]_vars

InitFenced == InitOn(FencedForms)

SpecFenced == InitFenced /\ [][NextParse]_vars

(***************************************************************************)
(* Vocabulary of the properties                                            *)
(***************************************************************************)
Returned == pc = "return"

Chars(s) == {s[i] : i \in 1..Len(s)}

\* lit occurs somewhere in s
Occurs(s, lit) == \E i \in 1..Len(s) : Lit(s, i, lit)

HasFence(s) == Occurs(s, FENCE_BQ) \/ Occurs(s, FENCE_SQ)

Blank(s) == Strip(s) = <<>>

\* a non-empty run of characters that are neither whitespace nor the asterisk
PlainRun(s) == s # <<>> /\ \A c \in Chars(s) : ~IsSpace(c) /\ c # STAR

\* a non-empty run of word characters
WordRun(s) == s # <<>> /\ \A c \in Chars(s) : IsWord(c)

\* t is name.ext with a plain name and a plain extension (ext after the last dot)
PlainNameExt(t) ==
    \E d \in 1..Len(t) :
        /\ t[d] = DOT
        /\ PlainRun(SubSeq(t, 1, d - 1))
        /\ PlainRun(SubSeq(t, d + 1, Len(t)))
        /\ DOT \notin Chars(SubSeq(t, d + 1, Len(t)))

\* t is name.ext with a plain name and an extension of word characters
WordNameExt(t) ==
    \E d \in 1..Len(t) :
        t[d] = DOT /\ PlainRun(SubSeq(t, 1, d - 1)) /\ WordRun(SubSeq(t, d + 1, Len(t)))

\* t has a dot with at least one character before it and one after it
DotInside(t) == \E d \in 2..(Len(t) - 1) : t[d] = DOT

\* s holds a token ** name.ext ** somewhere
HasMarker(s) ==
    \E i \in 1..Len(s) : \E j \in (i + 2)..Len(s) :
        Lit(s, i, Stars) /\ Lit(s, j, Stars) /\ PlainNameExt(SubSeq(s, i + 2, j - 1))

\* the text between a leading ** of s and the first ** after it, as a set
LeadingToken(s) ==
    {SubSeq(s, 3, j - 1) : j \in {k \in 3..Len(s) :
        /\ Lit(s, 1, Stars)
        /\ Lit(s, k, Stars)
        /\ \A m \in 3..(k - 1) : ~Lit(s, m, Stars)}}

\* a is an initial segment of b
IsPrefix(a, b) == Len(a) <= Len(b) /\ a = SubSeq(b, 1, Len(a))

\* the form is ** text ** newlines [opening fence] body [closing fence] with a
\* body that is not blank and holds no fence
MarkedShape(f) == f.marked /\ ~Blank(f.body) /\ ~HasFence(f.body)

(***************************************************************************)
(* Properties of the parser                                                *)
(***************************************************************************)
\* C1: the parser returns a pair for every input string; the filename is never
\* empty: it is the default or the text held between a leading ** and a later
\* **; an input of whitespace only gives ("", "output.txt").
C1_TotalNonEmptyFilename ==
    Returned =>
        /\ output_filename # <<>>
        /\ \/ output_filename = DEFAULT_FILENAME
           \/ Lit(Strip(result), 1, Stars \o output_filename \o Stars)
        /\ Blank(result) => parsed_content = <<>> /\ output_filename = DEFAULT_FILENAME

\* a non-empty input of whitespace only has been parsed
C1_Witness == Returned /\ result # <<>> /\ Blank(result) /\ parsed_content = <<>>

C3_PlainTextUnchanged ==
    (Returned /\ result # <<>> /\ ~HasMarker(result) /\ ~HasFence(result)) =>
        /\ parsed_content = Strip(result)
        /\ output_filename = DEFAULT_FILENAME
        /\ extract_filename_and_content(parsed_content) = <<parsed_content, DEFAULT_FILENAME>>

\* C4: when nothing is left between the opening and the closing fence, the
\* content returned is the empty string, with the captured filename or the
\* default.
C4_EmptyBodyGivesEmptyContent ==
    (Returned /\ form.open # NoOpen /\ form.close # NoClose /\ Blank(form.body)
      /\ (form.marked => WordNameExt(form.text))) =>
        /\ parsed_content = <<>>
        /\ output_filename = IF form.marked THEN form.text ELSE DEFAULT_FILENAME

\* C5: a leading ** text ** token whose text has no dot with a character on
\* both sides is never taken as a filename, whatever follows it: the default
\* filename is returned and the token stays in the content.
C5_MalformedTokenIgnored ==
    (Returned /\ form.marked /\ ~DotInside(form.text)) =>
        /\ output_filename = DEFAULT_FILENAME
        /\ Lit(parsed_content, 1, Stars \o form.text \o Stars)

\* C8: the filename returned holds no path separator and is no parent
\* directory component.
C8_FilenameInsideWorkingDirectory ==
    Returned => SLASH \notin Chars(output_filename) /\ output_filename # <<DOT, DOT>>

\* C9: a filename other than the default is the text between the leading **
\* of the trimmed input and the first ** after it, is name.ext with both parts
\* non-empty, and holds no whitespace and no asterisk.
C9_FilenameIsLeadingToken ==
    (Returned /\ output_filename # DEFAULT_FILENAME) =>
        /\ output_filename \in LeadingToken(Strip(result))
        /\ DotInside(output_filename)
        /\ \A c \in Chars(output_filename) : ~IsSpace(c) /\ c # STAR

\* C10: with an opening fence line, a body that holds fences itself and a closing
\* fence at the very end, the parser returns the whole (trimmed) body, its inner
\* fences and newlines kept.
C10_InnerFencesKept ==
    (Returned /\ ~form.marked /\ form.open # NoOpen /\ form.close # NoClose
      /\ HasFence(form.body)) =>
        parsed_content = Strip(form.body) /\ output_filename = DEFAULT_FILENAME

\* a body with a closing-fence look-alike in its middle came back whole
C10_Witness ==
    /\ Returned /\ ~form.marked /\ form.open # NoOpen /\ form.close # NoClose
    /\ \E i \in 2..(Len(form.body) - 4) : Lit(form.body, i, <<NL>> \o FENCE_BQ)
    /\ form.body[1] = "a"
    /\ parsed_content = form.body

(***************************************************************************)
(* Properties of the script                                                *)
(***************************************************************************)
\* C6: the stages run in the order credential, read, (client,) call, parse,
\* write, each at most once; the stage that fails is the last one run; without a
\* credential nothing else runs; with a missing, undecodable or blank input
\* file there is no model call; no failure before the write stage touches the
\* output file.
C6_StagesInOrder ==
    /\ IsPrefix(steps, Stages)
    /\ (error # "none") <=> (pc = "failed")
    /\ error # "none" => steps # <<>> /\ steps[Len(steps)] = error
    /\ (~groq_api_key /\ pc # "load_key") =>
           error = "credential" /\ steps = <<"credential">> /\ disk = disk0
    /\ (groq_api_key /\ pc \notin {"load_key", "read_input"}
          /\ (input_file.kind # "text" \/ Blank(input_file.data))) =>
           error = "read" /\ steps = <<"credential", "read">> /\ disk = disk0
    /\ error \in {"credential", "read", "client", "call", "parse"} => disk = disk0
    /\ pc = "done" => steps = Stages

\* the run stopped on an input file that is blank but not empty
C6_Witness ==
    /\ pc = "failed" /\ error = "read"
    /\ input_file.kind = "text" /\ input_file.data # <<>>
    /\ steps = <<"credential", "read">>

\* C7: a run that has ended either succeeded, and the output file holds the
\* whole parsed content, or failed, and the output file is as it was before
\* the run.
C7_OutputAtomic ==
    /\ pc = "done" => disk = [exists |-> TRUE, data |-> parsed_content]
    /\ pc = "failed" => disk = disk0

====
